---- MODULE Spec2Model ----
(***************************************************************************)
(* The in-memory rate limiter of go-crud-app (package middleware):         *)
(* RateLimiter, NewRateLimiter, RateLimiter.Allow and the background       *)
(* goroutine RateLimiter.cleanup, run by concurrent request goroutines     *)
(* under the limiter's sync.Mutex.                                         *)
(*                                                                         *)
(* Time is a discrete reading of Go's monotonic clock (time.Now carries a  *)
(* monotonic reading and Time.Sub uses it), so successive readings never   *)
(* decrease; several readings may be equal.                                *)
(***************************************************************************)
EXTENDS Integers, Sequences, FiniteSets

\* ---------------------------------------------------------------- bounds
\* Largest clock reading explored.
MaxTime == 2
\* Total number of Allow calls explored in one behaviour.
MaxCalls == 3
\* NewRateLimiter(limit, window) is explored for limit in 1..MaxLimit and
\* window in 1..MaxWindow clock units.
MaxLimit == 2
MaxWindow == 2

\* Request goroutines (gin handlers running RateLimitMiddleware -> Allow).
Procs == {"g1", "g2"}
\* Client keys (c.ClientIP()).
Keys == {"A", "B"}

VARIABLES
    limit,      \* RateLimiter.limit
    window,     \* RateLimiter.window
    requests,   \* RateLimiter.requests: map key -> sequence of timestamps
    mu,         \* RateLimiter.mu: TRUE when locked
    clock,      \* the monotonic clock time.Now() reads
    pc,         \* position of each request goroutine inside Allow
    key,        \* Allow's parameter key, per goroutine
    now,        \* Allow's local now, per goroutine
    times,      \* Allow's local times, per goroutine
    exists,     \* Allow's local exists, per goroutine
    ret,        \* Allow's return value, per goroutine
    cpc,        \* position of the cleanup goroutine
    cnow,       \* cleanup's local now
    todo,       \* keys the running range loop of cleanup has yet to visit
    before,     \* history: the map as it was when the running pass began
    history,    \* history: every decided Allow call, in mutex order
    limiters,   \* main: registerLimiter, authLimiter, generalLimiter
    users,      \* the users table behind database.DB, in order of creation
    cur,        \* the request the router is serving (NoRequest when none)
    gate,       \* history: per limiter, every Allow call the middleware made
    reached,    \* history: per limiter, the requests that got to their handler
    served,     \* history: number of requests answered so far
    ucall,      \* the last call of a function of package utils, with its
                \* arguments and what it returned (NoCall when none)
    regs        \* per request goroutine, the Register request it is serving
                \* when several are served at once (NoRegs when none)

\* The state of the HTTP server around the limiters.
serverVars == <<limiters, users, cur, gate, reached, served, ucall, regs>>

\* The state of one limiter and of the goroutines inside it.
limiterVars == <<limit, window, requests, mu, pc, key, now, times, exists,
                 ret, cpc, cnow, todo, before, history>>

vars == <<limit, window, requests, mu, clock, pc, key, now, times, exists,
          ret, cpc, cnow, todo, before, history,
          limiters, users, cur, gate, reached, served, ucall, regs>>

\* ------------------------------------------------------------ the limiter

\* make(map[string][]time.Time)
EmptyMap == [k \in {} |-> <<>>]

\* Mutant: the store replaces the whole map by one holding only k.
MapSetClobbers(m, k, v) == [x \in {k} |-> v]

\* rl.requests[key] = v
MapSet(m, k, v) == [x \in (DOMAIN m) \cup {k} |-> IF x = k THEN v ELSE m[x]]

\* delete(rl.requests, key)
MapDelete(m, k) == [x \in (DOMAIN m) \ {k} |-> m[x]]

\* Mutant: the comparison written with <= (a timestamp exactly window old
\* still counts).
RecentInclusive(t, n, w) == n - t <= w

\* now.Sub(t) < rl.window
Recent(t, n, w) == n - t < w

\* The filter loop shared by Allow and cleanup:
\*   validTimes := []time.Time{}
\*   for _, t := range times { if now.Sub(t) < rl.window { append } }
FilterValid(ts, n, w, validTimes) ==
    validTimes \o SelectSeq(ts, LAMBDA t : Recent(t, n, w))

\* Mutant: the limit check written with > (one call too many passes).
LimitExceededOffByOne(validTimes, l) == Len(validTimes) > l

\* len(validTimes) >= rl.limit
LimitExceeded(validTimes, l) == Len(validTimes) >= l

\* Mutant: the new timestamp is put in front of the sequence.
AllowBodyPrepends(m, k, n, ts, ex, l, w) ==
    IF ~ex
    THEN [requests |-> MapSet(m, k, <<n>>), ok |-> TRUE]
    ELSE LET validTimes == FilterValid(ts, n, w, <<>>)
         IN  IF LimitExceeded(validTimes, l)
             THEN [requests |-> m, ok |-> FALSE]
             ELSE [requests |-> MapSet(m, k, <<n>> \o validTimes), ok |-> TRUE]

\* Mutant: a denied attempt is recorded too (now is appended before the
\* limit check decides).
AllowBodyRecordsDenied(m, k, n, ts, ex, l, w) ==
    IF ~ex
    THEN [requests |-> MapSet(m, k, <<n>>), ok |-> TRUE]
    ELSE LET validTimes == FilterValid(ts, n, w, <<>>)
         IN  [requests |-> MapSet(m, k, Append(validTimes, n)),
              ok |-> ~LimitExceeded(validTimes, l)]

\* The body of Allow after the map lookup: the new map and the return value.
AllowBody(m, k, n, ts, ex, l, w) ==
    IF ~ex
    THEN [requests |-> MapSet(m, k, <<n>>), ok |-> TRUE]
    ELSE LET validTimes == FilterValid(ts, n, w, <<>>)
         IN  IF LimitExceeded(validTimes, l)
             THEN [requests |-> m, ok |-> FALSE]
             ELSE [requests |-> MapSet(m, k, Append(validTimes, n)), ok |-> TRUE]

\* Mutant: cleanup deletes every key it visits, fresh timestamps included.
CleanupEntryDropsAll(m, k, n, w) == MapDelete(m, k)

\* Mutant: cleanup stores the pruned sequence even when it is empty.
CleanupEntryKeepsEmpty(m, k, n, w) == MapSet(m, k, FilterValid(m[k], n, w, <<>>))

\* One iteration of cleanup's range loop, for key k.
CleanupEntry(m, k, n, w) ==
    LET validTimes == FilterValid(m[k], n, w, <<>>)
    IN  IF Len(validTimes) = 0 THEN MapDelete(m, k) ELSE MapSet(m, k, validTimes)

\* Mutant: Lock never waits (the mutex is not taken).
MutexNeverHeld == TRUE

\* rl.mu.Lock() can proceed
MutexFree == mu = FALSE

\* ------------------------------------------------- the server: its data

\* Largest number of requests the server answers in one behaviour.
MaxRequests == 2
\* Clock readings per minute: the resolution at which the server's clock is
\* explored.
TicksPerMinute == 2

\* main: NewRateLimiter(3, 1*time.Minute), (5, ...), (100, ...)
RegisterLimit == 3
AuthLimit == 5
GeneralLimit == 100

\* The limiter instances main constructs.
Policies == {"register", "auth", "general"}

PolicyLimit(p) ==
    CASE p = "register" -> RegisterLimit
      [] p = "auth" -> AuthLimit
      [] OTHER -> GeneralLimit

\* NewRateLimiter(limit, window): a struct with a map of its own.
NewRateLimiter(l, w) == [requests |-> EmptyMap, limit |-> l, window |-> w]

\* The routes main registers under /api.
UserRoutes == {"listUsers", "getUser", "updateUser", "deleteUser"}
Routes == {"register", "login"} \cup UserRoutes

\* The policy a route falls under (the rate limiting table: /auth/register,
\* /auth/login, /users/*).
PolicyClass(route) ==
    CASE route = "register" -> "register"
      [] route = "login" -> "auth"
      [] OTHER -> "general"

\* Mutant: every route is given the same limiter instance.
RouteLimiterShared(route) == "general"

\* The limiter main passes to RateLimitMiddleware on each route.
RouteLimiter(route) ==
    CASE route = "register" -> "register"
      [] route = "login" -> "auth"
      [] OTHER -> "general"

\* Mutant: the login route registers its limiter after its handler.
ChainLoginHandlerFirst(route) ==
    CASE route = "register" -> <<"RateLimit", "Register">>
      [] route = "login" -> <<"Login", "RateLimit">>
      [] OTHER -> <<"Auth", "RateLimit", route>>

\* The handler chain gin runs for a route: auth.POST(path, middleware,
\* handler), and users.Use(AuthMiddleware), users.Use(RateLimitMiddleware).
Chain(route) ==
    CASE route = "register" -> <<"RateLimit", "Register">>
      [] route = "login" -> <<"RateLimit", "Login">>
      [] OTHER -> <<"Auth", "RateLimit", route>>

\* gin.H{"error": ...} of RateLimitMiddleware
RateLimitBody == "Rate limit exceeded. Please try again later."

\* ---- request payloads

Usernames == {"alice", " bob ", "b!"}
Emails == {" A@X.io ", "b@x.io", "a.x.io"}
\* "Passw0rd" and "weakpass"
Passw0rd == <<"P", "a", "s", "s", "w", "0", "r", "d">>
Weakpass == <<"w", "e", "a", "k", "p", "a", "s", "s">>
Passwords == {Passw0rd, Weakpass}

\* strings.TrimSpace
TrimSpace(str) ==
    CASE str = " bob " -> "bob"
      [] str = " A@X.io " -> "A@X.io"
      [] str = " a@x.io " -> "a@x.io"
      [] OTHER -> str

\* strings.ToLower
ToLower(str) ==
    CASE str = " A@X.io " -> " a@x.io "
      [] str = "A@X.io" -> "a@x.io"
      [] OTHER -> str

\* usernameRegex.MatchString: ^[a-zA-Z0-9_]{3,50}$
UsernameMatches(str) == str \in {"alice", "bob"}

\* emailRegex.MatchString: ^[a-zA-Z0-9._%+\-]+@[a-zA-Z0-9.\-]+\.[a-zA-Z]{2,}$
EmailMatches(str) == str \in {"a@x.io", "A@X.io", "b@x.io"}

\* utils.MinPasswordLength
MinPasswordLength == 8

\* A password is the sequence of its characters.  The characters the model
\* writes passwords in, by what the three regexps of ValidatePassword match:
UpperCase == {"A", "P"}
LowerCase == {"a", "d", "e", "k", "p", "r", "s", "w"}
Digits == {"0", "1"}
\* ... and three characters none of them matches: "!", e-acute (two bytes in
\* UTF-8) and the NUL character (JSON "\u0000").
EAcute == "U+00E9"
NulChar == "U+0000"

\* The UTF-8 encoding of one character; a byte is named by its ASCII
\* character or by its hexadecimal value.
Utf8(c) ==
    CASE c = EAcute -> <<"C3", "A9">>
      [] c = NulChar -> <<"00">>
      [] OTHER -> <<c>>

\* []byte(password): a Go string is its UTF-8 bytes.  Every character gets
\* two places, the second one empty when its encoding is one byte long, and
\* the empty places are dropped.
Bytes(pw) ==
    LET places == [i \in 1..(2 * Len(pw)) |->
                      LET enc == Utf8(pw[(i + 1) \div 2])
                      IN  IF i % 2 = 1 THEN enc[1]
                          ELSE IF Len(enc) = 2 THEN enc[2] ELSE ""]
    IN  SelectSeq(places, LAMBDA b : b # "")

\* What ValidatePassword looks at: len(password), which counts bytes, and the
\* three regexps.
PasswordShape(pw) ==
    [len |-> Len(Bytes(pw)),
     upper |-> \E i \in 1..Len(pw) : pw[i] \in UpperCase,
     lower |-> \E i \in 1..Len(pw) : pw[i] \in LowerCase,
     digit |-> \E i \in 1..Len(pw) : pw[i] \in Digits]

\* utils.ValidatePassword(password) == nil
ValidatePassword(pw) ==
    LET sh == PasswordShape(pw)
    IN  IF sh.len < MinPasswordLength THEN FALSE
        ELSE ~(~sh.upper \/ ~sh.lower \/ ~sh.digit)

\* bcrypt reads 72 bytes of key (the 18 words of the Blowfish P-array).
BcryptMaxBytes == 72

\* The golang.org/x/crypto releases a build can link: GenerateFromPassword
\* either refuses a password longer than 72 bytes (ErrPasswordTooLong) or
\* hashes it like any other.
BcryptBuilds == {"rejectLong", "hashLong"}

\* The key bcrypt hashes: the password bytes and a terminating zero byte,
\* read cyclically until 72 bytes are taken (blowfish.ExpandKey).
BcryptKey(bytes) ==
    LET ckey == bytes \o <<"00">>
    IN  [i \in 1..BcryptMaxBytes |-> ckey[((i - 1) % Len(ckey)) + 1]]

\* bcrypt.GenerateFromPassword: the hash is modelled by the key it verifies
\* (the salt and the cost travel inside the hash and play no part in the
\* comparison).
GenerateFromPassword(bytes, build) ==
    IF build = "rejectLong" /\ Len(bytes) > BcryptMaxBytes
    THEN [hash |-> <<>>, err |-> TRUE]
    ELSE [hash |-> <<"bcrypt", BcryptKey(bytes)>>, err |-> FALSE]

\* bcrypt.CompareHashAndPassword(hash, password) == nil
CompareHashAndPassword(hash, bytes) == hash = <<"bcrypt", BcryptKey(bytes)>>

\* utils.HashPassword: "" (the empty sequence) and an error for a rejected
\* password, the bcrypt hash otherwise.
HashPassword(pw, build) ==
    IF ~ValidatePassword(pw) THEN [hash |-> <<>>, err |-> TRUE]
    ELSE GenerateFromPassword(Bytes(pw), build)

\* utils.CheckPassword
CheckPassword(pw, hash) == CompareHashAndPassword(hash, Bytes(pw))

\* ---- time (package time) and tokens (utils/jwt.go)

\* An instant, or a duration, is written as whole hours h, seconds of the
\* hour s and nanoseconds of the second n, with 0 <= s < 3600 and
\* 0 <= n < 10^9 (one count of nanoseconds is too large for the integers
\* the model checker computes with).  Instants count from the start of the
\* run.
SecondsPerHour == 3600
NanosPerSecond == 1000000000

Normal(h, s, n) ==
    LET secs == s + (n \div NanosPerSecond)
    IN  [h |-> h + (secs \div SecondsPerHour),
         s |-> secs % SecondsPerHour,
         n |-> n % NanosPerSecond]

Plus(a, b) == Normal(a.h + b.h, a.s + b.s, a.n + b.n)
Minus(a, b) == Normal(a.h - b.h, a.s - b.s, a.n - b.n)

\* Time.Before, and < on durations
Earlier(a, b) ==
    \/ a.h < b.h
    \/ a.h = b.h /\ a.s < b.s
    \/ a.h = b.h /\ a.s = b.s /\ a.n < b.n

\* h hours, exactly.
Hours(h) == [h |-> h, s |-> 0, n |-> 0]

\* time.Duration is an int64 count of nanoseconds:
\*   2^63 - 1 ns = 2562047 h 2836 s 854775807 ns,
\*   -2^63 ns    = -2562048 h + 763 s 145224192 ns,
\*   2^64 ns     = 5124095 h 2073 s 709551616 ns.
MaxInt64 == [h |-> 2562047, s |-> 2836, n |-> 854775807]
MinInt64 == [h |-> -2562048, s |-> 763, n |-> 145224192]
TwoTo64 == [h |-> 5124095, s |-> 2073, n |-> 709551616]

\* The int64 a product of int64s is: the exact product modulo 2^64.
RECURSIVE Int64(_)
Int64(x) ==
    IF Earlier(MaxInt64, x) THEN Int64(Minus(x, TwoTo64))
    ELSE IF Earlier(x, MinInt64) THEN Int64(Plus(x, TwoTo64))
    ELSE x

\* time.Duration(config.ExpirationHours) * time.Hour
Expiration(hours) == Int64(Hours(hours))

\* jwt.NewNumericDate: t.Truncate(jwt.TimePrecision), one second.
NewNumericDate(t) == [t EXCEPT !.n = 0]

\* json.Marshal of a string: bytes that are not UTF-8 come out as U+FFFD.
Json(str) == IF str = "al\\xFFce" THEN "al\\uFFFDce" ELSE str

\* The HMAC key of SignedString and of signature verification: hmac.New pads
\* a key shorter than the block with zero bytes, so trailing zero bytes of
\* the secret do not tell keys apart.
HmacKey(secret) == IF secret = "test-secret-key\\x00" THEN "test-secret-key"
                   ELSE secret

\* main: jwtConfig (JWT_SECRET unset)
jwtConfig == [SecretKey |-> "your-secret-key-change-this-in-production",
              ExpirationHours |-> 24]

\* A token string is modelled by its three segments: the header (its alg,
\* "" when there is none and the text itself when it is no JSON), the
\* claims of the payload and the signature (the HMAC key that verifies it).
NoClaims == [uid |-> 0, username |-> "", email |-> "",
             exp |-> Hours(0), iat |-> Hours(0), nbf |-> Hours(0)]
\* ""
NoToken == [header |-> "", claims |-> NoClaims, sig |-> ""]
\* "invalid.token.format"
InvalidTokenFormat == [header |-> "invalid", claims |-> NoClaims,
                       sig |-> "format"]

\* UserID, Username and Email of Claims.
Subject(claims) ==
    [uid |-> claims.uid, username |-> claims.username, email |-> claims.email]

\* utils.GenerateToken, called at instant at (the three readings of
\* time.Now() are taken as one).  SignedString with an HMAC method and a
\* []byte key returns no error.
GenerateToken(userID, username, email, config, at) ==
    LET expirationTime == Plus(at, Expiration(config.ExpirationHours))
    IN  [header |-> "HS256",
         claims |-> [uid |-> userID,
                     username |-> Json(username),
                     email |-> Json(email),
                     exp |-> NewNumericDate(expirationTime),
                     iat |-> NewNumericDate(at),
                     nbf |-> NewNumericDate(at)],
         sig |-> HmacKey(config.SecretKey)]

\* What ValidateToken returns: claims (nil when there is an error) and err.
Invalid(err) == [claims |-> NoClaims, nil |-> TRUE, err |-> err]

\* utils.ValidateToken, called at instant at.  jwt.ParseWithClaims splits
\* and decodes the segments, asks the key function for the key (HMAC methods
\* only), verifies the signature and then validates the claims: exp (the
\* token is good strictly before it) and nbf.
ValidateToken(tokenString, secretKey, at) ==
    IF tokenString.header # "HS256" THEN Invalid("ErrInvalidToken")
    ELSE IF tokenString.sig # HmacKey(secretKey)
    THEN Invalid("ErrInvalidToken")
    ELSE IF ~Earlier(at, tokenString.claims.exp)
    THEN Invalid("ErrExpiredToken")
    ELSE IF Earlier(at, tokenString.claims.nbf)
    THEN Invalid("ErrInvalidToken")
    ELSE [claims |-> tokenString.claims, nil |-> FALSE, err |-> ""]

\* ---- the users table (models.User through gorm)

\* Rows gorm's queries see: deleted_at IS NULL.
Live(us) == {i \in 1..Len(us) : ~us[i].deleted}

\* Mutant: the lookup of Register asks for the email only.
ExistsEmailOnly(us, email, username) ==
    \E i \in Live(us) : us[i].email = email

\* DB.Where("email = ? OR username = ?", email, username).First(&existing)
ExistsEmailOrUsername(us, email, username) ==
    \E i \in Live(us) : us[i].email = email \/ us[i].username = username

\* Mutant: the table has a unique index on Email only.
UniqueViolationEmailOnly(us, self, username, email) ==
    \E i \in (1..Len(us)) \ {self} : us[i].email = email

\* The uniqueIndex of Username and of Email covers every row of the table,
\* soft-deleted rows included.
UniqueViolation(us, self, username, email) ==
    \E i \in (1..Len(us)) \ {self} :
        us[i].username = username \/ us[i].email = email

\* DB.Where("email = ?", email).First(&user): the id found, 0 when none.
FirstByEmail(us, email) ==
    IF \E i \in Live(us) : us[i].email = email
    THEN CHOOSE i \in Live(us) :
            /\ us[i].email = email
            /\ \A j \in Live(us) : us[j].email = email => i <= j
    ELSE 0

\* DB.First(&user, id): the id found, 0 when none.
FirstByID(us, id) == IF id \in Live(us) THEN id ELSE 0

\* ---- the handlers

\* What a handler leaves behind: the response (status, error, token), the
\* users table, and the events of the request (history).
Reply(status, error, us, events) ==
    [status |-> status, error |-> error, token |-> NoToken, users |-> us,
     events |-> events, list |-> <<>>, count |-> 0]

\* The payload and URL parameter a handler reads ("" and 0: not given).
NoInput == [username |-> "", email |-> "", password |-> <<>>, id |-> 0]

\* Mutant: Register goes on when HashPassword returned an error and stores
\* the user with the empty hash.
RegisterHandlerKeepsWeak(us, rq, build, at) ==
    IF rq.username = "" \/ rq.email = "" \/ rq.password = <<>>
    THEN Reply(400, "Invalid request payload", us, <<>>)
    ELSE
    LET username == TrimSpace(rq.username) IN
    IF ~UsernameMatches(username)
    THEN Reply(400, "Username must be 3-50 characters", us, <<>>)
    ELSE
    LET email == TrimSpace(ToLower(rq.email)) IN
    IF ~EmailMatches(email)
    THEN Reply(400, "Invalid email format", us, <<>>)
    ELSE
    IF ExistsEmailOrUsername(us, email, username)
    THEN Reply(409, "User with this email or username already exists", us,
               <<"db">>)
    ELSE
    LET h == HashPassword(rq.password, build) IN
    IF UniqueViolation(us, 0, username, email)
    THEN Reply(500, "Failed to create user", us, <<"db", "hash", "db">>)
    ELSE
    LET user == [id |-> Len(us) + 1, username |-> username, email |-> email,
                 hash |-> h.hash, deleted |-> FALSE]
    IN  [status |-> 201, error |-> "",
         token |-> GenerateToken(user.id, user.username, user.email,
                                 jwtConfig, at),
         users |-> Append(us, user),
         events |-> <<"db", "hash", "db">>, list |-> <<>>, count |-> 0]

\* handlers.Register
RegisterHandler(us, rq, build, at) ==
    IF rq.username = "" \/ rq.email = "" \/ rq.password = <<>>
    THEN Reply(400, "Invalid request payload", us, <<>>)
    ELSE
    LET username == TrimSpace(rq.username) IN
    IF ~UsernameMatches(username)
    THEN Reply(400, "Username must be 3-50 characters", us, <<>>)
    ELSE
    LET email == TrimSpace(ToLower(rq.email)) IN
    IF ~EmailMatches(email)
    THEN Reply(400, "Invalid email format", us, <<>>)
    ELSE
    IF ExistsEmailOrUsername(us, email, username)
    THEN Reply(409, "User with this email or username already exists", us,
               <<"db">>)
    ELSE
    LET h == HashPassword(rq.password, build) IN
    IF h.err
    THEN Reply(400, "weak password", us, <<"db", "hash">>)
    ELSE
    IF UniqueViolation(us, 0, username, email)
    THEN Reply(500, "Failed to create user", us, <<"db", "hash", "db">>)
    ELSE
    LET user == [id |-> Len(us) + 1, username |-> username, email |-> email,
                 hash |-> h.hash, deleted |-> FALSE]
    IN  [status |-> 201, error |-> "",
         token |-> GenerateToken(user.id, user.username, user.email,
                                 jwtConfig, at),
         users |-> Append(us, user),
         events |-> <<"db", "hash", "db">>, list |-> <<>>, count |-> 0]

\* Mutant: Login looks the email up as it was sent, neither lower-cased nor
\* trimmed.
LoginHandlerRawEmail(us, rq, at) ==
    IF rq.email = "" \/ rq.password = <<>>
    THEN Reply(400, "Invalid request payload", us, <<>>)
    ELSE
    LET id == FirstByEmail(us, rq.email) IN
    IF id = 0
    THEN Reply(401, "Invalid email or password", us, <<"db">>)
    ELSE
    IF ~CheckPassword(rq.password, us[id].hash)
    THEN Reply(401, "Invalid email or password", us, <<"db", "password">>)
    ELSE [status |-> 200, error |-> "",
          token |-> GenerateToken(us[id].id, us[id].username, us[id].email,
                                  jwtConfig, at),
          users |-> us,
          events |-> <<"db", "password">>, list |-> <<>>, count |-> 0]

\* handlers.Login
LoginHandler(us, rq, at) ==
    IF rq.email = "" \/ rq.password = <<>>
    THEN Reply(400, "Invalid request payload", us, <<>>)
    ELSE
    LET email == TrimSpace(ToLower(rq.email))
        id == FirstByEmail(us, email)
    IN
    IF id = 0
    THEN Reply(401, "Invalid email or password", us, <<"db">>)
    ELSE
    IF ~CheckPassword(rq.password, us[id].hash)
    THEN Reply(401, "Invalid email or password", us, <<"db", "password">>)
    ELSE [status |-> 200, error |-> "",
          token |-> GenerateToken(us[id].id, us[id].username, us[id].email,
                                  jwtConfig, at),
          users |-> us,
          events |-> <<"db", "password">>, list |-> <<>>, count |-> 0]

\* (*User).ToResponse: the row without its password hash.
ToResponse(u) == [id |-> u.id, username |-> u.username, email |-> u.email]

\* Mutant: the query of GetAllUsers has no Where("id != ?", userID).
GetAllUsersHandlerWithSelf(us, uid) ==
    IF uid = 0
    THEN Reply(401, "Unauthorized", us, <<>>)
    ELSE
    LET found == SelectSeq(us, LAMBDA u : ~u.deleted)
        userResponses == [i \in 1..Len(found) |-> ToResponse(found[i])]
    IN  [Reply(200, "", us, <<"db">>) EXCEPT
            !.list = userResponses, !.count = Len(userResponses)]

\* handlers.GetAllUsers (uid: middleware.GetUserID, 0 when not set):
\* DB.Where("id != ?", userID).Find(&users), the rows in id order.
GetAllUsersHandler(us, uid) ==
    IF uid = 0
    THEN Reply(401, "Unauthorized", us, <<>>)
    ELSE
    LET found == SelectSeq(us, LAMBDA u : u.id # uid /\ ~u.deleted)
        userResponses == [i \in 1..Len(found) |-> ToResponse(found[i])]
    IN  [Reply(200, "", us, <<"db">>) EXCEPT
            !.list = userResponses, !.count = Len(userResponses)]

\* handlers.GetUserByID
GetUserByIDHandler(us, rq) ==
    IF FirstByID(us, rq.id) = 0
    THEN Reply(404, "User not found", us, <<"db">>)
    ELSE Reply(200, "", us, <<"db">>)

\* c.Params.Get("id"): its second result, true when the route has the
\* parameter.
ParamsGetFound(route) == route \in {"getUser", "updateUser", "deleteUser"}

\* handlers.UpdateUser (uid: middleware.GetUserID, 0 when not set).
UpdateUserHandler(us, uid, rq) ==
    IF uid = 0
    THEN Reply(401, "Unauthorized", us, <<>>)
    ELSE
    IF ParamsGetFound("updateUser")
    THEN Reply(400, "Invalid user ID", us, <<>>)
    ELSE
    LET id == FirstByID(us, rq.id) IN
    IF id = 0
    THEN Reply(404, "User not found", us, <<"db">>)
    ELSE
    IF id # uid
    THEN Reply(403, "You can only update your own profile", us, <<"db">>)
    ELSE
    IF rq.username # "" /\ ~UsernameMatches(rq.username)
    THEN Reply(400, "Username must be 3-50 characters", us, <<"db">>)
    ELSE
    IF rq.email # "" /\ ~EmailMatches(rq.email)
    THEN Reply(400, "Invalid email format", us, <<"db">>)
    ELSE
    IF rq.username = "" /\ rq.email = ""
    THEN Reply(400, "No fields to update", us, <<"db">>)
    ELSE
    LET username == IF rq.username # "" THEN rq.username ELSE us[id].username
        email == IF rq.email # "" THEN rq.email ELSE us[id].email
    IN
    IF UniqueViolation(us, id, username, email)
    THEN Reply(500, "Failed to update user", us, <<"db", "db">>)
    ELSE Reply(200, "",
               [us EXCEPT ![id].username = username, ![id].email = email],
               <<"db", "db", "db">>)

\* Mutant: the ownership check of DeleteUser is missing.
DeleteUserHandlerAnyone(us, uid, rq) ==
    IF uid = 0
    THEN Reply(401, "Unauthorized", us, <<>>)
    ELSE
    LET id == FirstByID(us, rq.id) IN
    IF id = 0
    THEN Reply(404, "User not found", us, <<"db">>)
    ELSE Reply(200, "", [us EXCEPT ![id].deleted = TRUE], <<"db", "db">>)

\* handlers.DeleteUser
DeleteUserHandler(us, uid, rq) ==
    IF uid = 0
    THEN Reply(401, "Unauthorized", us, <<>>)
    ELSE
    LET id == FirstByID(us, rq.id) IN
    IF id = 0
    THEN Reply(404, "User not found", us, <<"db">>)
    ELSE
    IF id # uid
    THEN Reply(403, "You can only delete your own profile", us, <<"db">>)
    ELSE Reply(200, "", [us EXCEPT ![id].deleted = TRUE], <<"db", "db">>)

\* ---- the request being served

NoRequest ==
    [route |-> "none", ip |-> "", index |-> 0, aborted |-> FALSE,
     allowed |-> "unset", now |-> 0, uid |-> 0, status |-> 0, error |-> "",
     token |-> NoToken, input |-> NoInput, trace |-> <<>>, list |-> <<>>,
     count |-> 0]

\* The server as main leaves it before the first request: three limiters of
\* their own, one minute each, and whatever the users table holds.
\* No goroutine is serving a Register request of its own.
NoReg == [pc |-> "idle", input |-> NoInput, username |-> "", email |-> "",
          hash |-> <<>>, status |-> 0, n |-> 0]
NoRegs == [r \in Procs |-> NoReg]

\* No function of package utils was called yet.
NoCall == [fn |-> "none"]

FreshLimiters == [p \in Policies |-> NewRateLimiter(PolicyLimit(p), TicksPerMinute)]

ServerIdle ==
    /\ limiters = FreshLimiters
    /\ users = <<>>
    /\ cur = NoRequest
    /\ gate = [p \in Policies |-> <<>>]
    /\ reached = [p \in Policies |-> <<>>]
    /\ served = 0
    /\ ucall = NoCall
    /\ regs = NoRegs

\* ---------------------------------------------------------------- Init

Init ==
    /\ limit \in 1..MaxLimit
    /\ window \in 1..MaxWindow
    /\ requests = EmptyMap
    /\ mu = FALSE
    /\ clock = 0
    /\ pc = [p \in Procs |-> "idle"]
    /\ key = [p \in Procs |-> "A"]
    /\ now = [p \in Procs |-> 0]
    /\ times = [p \in Procs |-> <<>>]
    /\ exists = [p \in Procs |-> FALSE]
    /\ ret = [p \in Procs |-> FALSE]
    /\ cpc = "tick"
    /\ cnow = 0
    /\ todo = {}
    /\ before = EmptyMap
    /\ history = <<>>
    /\ ServerIdle

\* --------------------------------------------------------------- actions

\* The clock advances.
Tick ==
    /\ clock < MaxTime
    /\ clock' = clock + 1
    /\ UNCHANGED <<limit, window, requests, mu, pc, key, now, times, exists,
                   ret, cpc, cnow, todo, before, history>>
    /\ UNCHANGED serverVars

InFlight == {p \in Procs : pc[p] # "idle"}

\* A request goroutine calls rl.Allow(k).
AllowEnter(p, k) ==
    /\ pc[p] = "idle"
    /\ Len(history) + Cardinality(InFlight) < MaxCalls
    /\ pc' = [pc EXCEPT ![p] = "lock"]
    /\ key' = [key EXCEPT ![p] = k]
    /\ UNCHANGED <<limit, window, requests, mu, clock, now, times, exists,
                   ret, cpc, cnow, todo, before, history>>
    /\ UNCHANGED serverVars

\* rl.mu.Lock()
AllowLock(p) ==
    /\ pc[p] = "lock"
    /\ MutexFree
    /\ mu' = TRUE
    /\ pc' = [pc EXCEPT ![p] = "read"]
    /\ UNCHANGED <<limit, window, requests, clock, key, now, times, exists,
                   ret, cpc, cnow, todo, before, history>>
    /\ UNCHANGED serverVars

\* now := time.Now(); times, exists := rl.requests[key]
AllowRead(p) ==
    /\ pc[p] = "read"
    /\ now' = [now EXCEPT ![p] = clock]
    /\ exists' = [exists EXCEPT ![p] = key[p] \in DOMAIN requests]
    /\ times' = [times EXCEPT ![p] =
                    IF key[p] \in DOMAIN requests THEN requests[key[p]] ELSE <<>>]
    /\ pc' = [pc EXCEPT ![p] = "decide"]
    /\ UNCHANGED <<limit, window, requests, mu, clock, key, ret, cpc, cnow,
                   todo, before, history>>
    /\ UNCHANGED serverVars

\* The unseen-key branch, the filter, the limit check and the append.
AllowDecide(p) ==
    /\ pc[p] = "decide"
    /\ LET r == AllowBody(requests, key[p], now[p], times[p], exists[p],
                          limit, window)
       IN  /\ requests' = r.requests
           /\ ret' = [ret EXCEPT ![p] = r.ok]
           /\ history' = Append(history,
                  [key |-> key[p], now |-> now[p], ok |-> r.ok,
                   raced |-> \E q \in Procs \ {p} :
                                 pc[q] # "idle" /\ key[q] = key[p]])
    /\ pc' = [pc EXCEPT ![p] = "unlock"]
    /\ UNCHANGED <<limit, window, mu, clock, key, now, times, exists, cpc,
                   cnow, todo, before>>
    /\ UNCHANGED serverVars

\* Mutant: the denied path returns without releasing the mutex.
AllowUnlockDeniedKeepsLock(p) ==
    /\ pc[p] = "unlock"
    /\ mu' = ~ret[p]
    /\ pc' = [pc EXCEPT ![p] = "idle"]
    /\ key' = [key EXCEPT ![p] = "A"]
    /\ now' = [now EXCEPT ![p] = 0]
    /\ times' = [times EXCEPT ![p] = <<>>]
    /\ exists' = [exists EXCEPT ![p] = FALSE]
    /\ ret' = [ret EXCEPT ![p] = FALSE]
    /\ UNCHANGED <<limit, window, requests, clock, cpc, cnow, todo, before,
                   history>>
    /\ UNCHANGED serverVars

\* defer rl.mu.Unlock(), and the return to the caller.
AllowUnlock(p) ==
    /\ pc[p] = "unlock"
    /\ mu' = FALSE
    /\ pc' = [pc EXCEPT ![p] = "idle"]
    /\ key' = [key EXCEPT ![p] = "A"]
    /\ now' = [now EXCEPT ![p] = 0]
    /\ times' = [times EXCEPT ![p] = <<>>]
    /\ exists' = [exists EXCEPT ![p] = FALSE]
    /\ ret' = [ret EXCEPT ![p] = FALSE]
    /\ UNCHANGED <<limit, window, requests, clock, cpc, cnow, todo, before,
                   history>>
    /\ UNCHANGED serverVars

\* The ticker fired: rl.mu.Lock()
CleanupLock ==
    /\ cpc = "tick"
    /\ MutexFree
    /\ mu' = TRUE
    /\ cpc' = "now"
    /\ UNCHANGED <<limit, window, requests, clock, pc, key, now, times,
                   exists, ret, cnow, todo, before, history>>
    /\ UNCHANGED serverVars

\* now := time.Now(); for key, times := range rl.requests
CleanupNow ==
    /\ cpc = "now"
    /\ cnow' = clock
    /\ todo' = DOMAIN requests
    /\ before' = requests
    /\ cpc' = "range"
    /\ UNCHANGED <<limit, window, requests, mu, clock, pc, key, now, times,
                   exists, ret, history>>
    /\ UNCHANGED serverVars

\* One iteration of the range loop (Go's map iteration order is unspecified).
CleanupKey ==
    /\ cpc = "range"
    /\ \E k \in todo :
        /\ requests' = IF k \in DOMAIN requests
                       THEN CleanupEntry(requests, k, cnow, window)
                       ELSE requests
        /\ todo' = todo \ {k}
    /\ UNCHANGED <<limit, window, mu, clock, pc, key, now, times, exists,
                   ret, cpc, cnow, before, history>>
    /\ UNCHANGED serverVars

\* The range loop is over: rl.mu.Unlock(), back to waiting for the ticker.
CleanupUnlock ==
    /\ cpc = "range"
    /\ todo = {}
    /\ mu' = FALSE
    /\ cpc' = "tick"
    /\ cnow' = 0
    /\ before' = EmptyMap
    /\ UNCHANGED <<limit, window, requests, clock, pc, key, now, times,
                   exists, ret, todo, history>>
    /\ UNCHANGED serverVars

Next ==
    \/ Tick
    \/ \E p \in Procs, k \in Keys : AllowEnter(p, k)
    \/ \E p \in Procs : AllowLock(p)
    \/ \E p \in Procs : AllowRead(p)
    \/ \E p \in Procs : AllowDecide(p)
    \/ \E p \in Procs : AllowUnlock(p)
    \/ CleanupLock
    \/ CleanupNow
    \/ CleanupKey
    \/ CleanupUnlock

Spec == Init /\ [][Next]_vars

\* Fair scheduling: a goroutine that can take a step takes it, and a
\* goroutine blocked in Lock gets the mutex when it is released again and
\* again (sync.Mutex hands the lock to a starving waiter); the ticker keeps
\* firing, so the cleanup goroutine keeps asking for the lock.
Fairness ==
    /\ \A p \in Procs : SF_vars(AllowLock(p))
    /\ \A p \in Procs : WF_vars(AllowRead(p))
    /\ \A p \in Procs : WF_vars(AllowDecide(p))
    /\ \A p \in Procs : WF_vars(AllowUnlock(p))
    /\ SF_vars(CleanupLock)
    /\ WF_vars(CleanupNow)
    /\ WF_vars(CleanupKey)
    /\ WF_vars(CleanupUnlock)

\* The fair behaviours are explored for the smallest and the largest policy.
FairInit == Init /\ <<limit, window>> \in {<<1, 1>>, <<MaxLimit, MaxWindow>>}

FairSpec == FairInit /\ [][Next]_vars /\ Fairness

\* ------------------------------------------------ the server: its actions

\* x, n times.
Repeat(x, n) == [i \in 1..n |-> x]

\* The server after client A, at clock reading 0, called register
\* RegisterLimit - 1 times (alice was created), login AuthLimit - 1 times and
\* a /users route GeneralLimit - 1 times.
BusyServer ==
    /\ users = <<[id |-> 1, username |-> "alice", email |-> "a@x.io",
                  hash |-> <<"bcrypt", BcryptKey(Bytes(Passw0rd))>>, deleted |-> FALSE]>>
    /\ limiters =
        [p \in Policies |->
            [FreshLimiters[p] EXCEPT
                !.requests = MapSet(EmptyMap, "A",
                    Repeat(0, PolicyLimit(p) - 1))]]
    /\ gate =
        [p \in Policies |->
            Repeat([key |-> "A", now |-> 0, ok |-> TRUE],
                   PolicyLimit(p) - 1)]
    /\ reached =
        [p \in Policies |->
            Repeat([key |-> "A", now |-> 0],
                   PolicyLimit(p) - 1)]
    /\ cur = NoRequest
    /\ served = 0
    /\ ucall = NoCall
    /\ regs = NoRegs

\* The limiter of the first specification stays as constructed while the
\* server is explored.
LimiterIdle ==
    /\ limit = 1
    /\ window = 1
    /\ requests = EmptyMap
    /\ mu = FALSE
    /\ pc = [p \in Procs |-> "idle"]
    /\ key = [p \in Procs |-> "A"]
    /\ now = [p \in Procs |-> 0]
    /\ times = [p \in Procs |-> <<>>]
    /\ exists = [p \in Procs |-> FALSE]
    /\ ret = [p \in Procs |-> FALSE]
    /\ cpc = "tick"
    /\ cnow = 0
    /\ todo = {}
    /\ before = EmptyMap
    /\ history = <<>>

ServerInit ==
    /\ LimiterIdle
    /\ clock = 0
    /\ ServerIdle \/ BusyServer

\* The chain of the request being served has a handler left to run.
Active ==
    /\ cur.route # "none"
    /\ ~cur.aborted
    /\ cur.index <= Len(Chain(cur.route))

\* The handler gin runs next.
NextHandler == Chain(cur.route)[cur.index]

\* The router takes a request of client ip for a route.
Receive(route, ip) ==
    /\ cur.route = "none"
    /\ served < MaxRequests
    /\ cur' = [NoRequest EXCEPT !.route = route, !.ip = ip, !.index = 1]
    /\ UNCHANGED <<limiters, users, gate, reached, served>>
    /\ UNCHANGED <<clock, ucall, regs, limiterVars>>

\* Mutant: the denied branch writes its response and forgets c.Abort().
RateLimitMiddlewareNoAbort(rq, ok, n) ==
    IF ok
    THEN [rq EXCEPT !.allowed = "yes", !.now = n, !.index = @ + 1,
                    !.trace = Append(@, "allow")]
    ELSE [rq EXCEPT !.allowed = "no", !.now = n, !.status = 429,
                    !.error = RateLimitBody, !.index = @ + 1,
                    !.trace = Append(@, "allow")]

\* RateLimitMiddleware, after limiter.Allow(key) returned ok at reading n:
\* 429, the error body and c.Abort() when denied, c.Next() otherwise.
RateLimitMiddleware(rq, ok, n) ==
    IF ok
    THEN [rq EXCEPT !.allowed = "yes", !.now = n, !.index = @ + 1,
                    !.trace = Append(@, "allow")]
    ELSE [rq EXCEPT !.allowed = "no", !.now = n, !.status = 429,
                    !.error = RateLimitBody, !.aborted = TRUE,
                    !.trace = Append(@, "allow")]

\* Mutant: an admitted call uses up the limit itself (rl.limit--).
StoreRequestsDecrements(rl, m) ==
    [rl EXCEPT !.requests = m,
               !.limit = IF m # rl.requests THEN @ - 1 ELSE @]

\* What Allow writes to the limiter: rl.requests[key] = ..., nothing else.
StoreRequests(rl, m) == [rl EXCEPT !.requests = m]

\* time.Now() as the server's limiters read it: any reading not before the
\* last one (the clock of the server is advanced by its readings).
Readings == clock..MaxTime

\* The limiter middleware of the route runs: key := c.ClientIP(),
\* limiter.Allow(key) under the limiter's mutex, then the branch above.
RunRateLimit ==
    /\ Active
    /\ NextHandler = "RateLimit"
    /\ \E n \in Readings :
        LET p == RouteLimiter(cur.route)
            rl == limiters[p]
            ex == cur.ip \in DOMAIN rl.requests
            r == AllowBody(rl.requests, cur.ip, n,
                           IF ex THEN rl.requests[cur.ip] ELSE <<>>, ex,
                           rl.limit, rl.window)
        IN  /\ clock' = n
            /\ limiters' = [limiters EXCEPT ![p] = StoreRequests(rl, r.requests)]
            /\ gate' = [gate EXCEPT ![PolicyClass(cur.route)] =
                           Append(@, [key |-> cur.ip, now |-> n, ok |-> r.ok])]
            /\ cur' = RateLimitMiddleware(cur, r.ok, n)
    /\ UNCHANGED <<users, reached, served>>
    /\ UNCHANGED <<ucall, regs, limiterVars>>

\* AuthMiddleware(secret): validates the bearer token; 401 and c.Abort()
\* when it is missing or invalid, the token's user id in the context and
\* c.Next() otherwise.  A valid token is one Register or Login issued, so it
\* names a row of the users table (uid 0: no valid token).
RunAuth ==
    /\ Active
    /\ NextHandler = "Auth"
    /\ \E uid \in 0..Len(users) :
        cur' = IF uid = 0
               THEN [cur EXCEPT !.status = 401, !.error = "Unauthorized",
                                !.aborted = TRUE,
                                !.trace = Append(@, "jwt")]
               ELSE [cur EXCEPT !.uid = uid, !.index = @ + 1,
                                !.trace = Append(@, "jwt")]
    /\ UNCHANGED <<limiters, users, gate, reached, served>>
    /\ UNCHANGED <<clock, ucall, regs, limiterVars>>

\* time.Now() at a clock reading of the server: TicksPerMinute readings to
\* the minute.
ClockTime(ticks) == Normal(0, (ticks * 60) \div TicksPerMinute, 0)

\* A route handler ran on payload rq and left outcome out.
Serve(rq, out) ==
    /\ users' = out.users
    /\ cur' = [cur EXCEPT !.status = out.status, !.error = out.error,
                          !.token = out.token, !.input = rq,
                          !.list = out.list, !.count = out.count,
                          !.index = @ + 1,
                          !.trace = @ \o <<"handler">> \o out.events]
    /\ reached' = [reached EXCEPT ![PolicyClass(cur.route)] =
                      Append(@, [key |-> cur.ip, now |-> cur.now])]
    /\ UNCHANGED <<limiters, gate, served>>
    /\ UNCHANGED <<clock, ucall, regs, limiterVars>>

RunRegister ==
    /\ Active
    /\ NextHandler = "Register"
    /\ \E rq \in [username : Usernames, email : Emails,
                  password : Passwords, id : {0}], build \in BcryptBuilds :
        Serve(rq, RegisterHandler(users, rq, build, ClockTime(clock)))

RunLogin ==
    /\ Active
    /\ NextHandler = "Login"
    /\ \E rq \in [username : {""}, email : Emails,
                  password : Passwords, id : {0}] :
        Serve(rq, LoginHandler(users, rq, ClockTime(clock)))

RunListUsers ==
    /\ Active
    /\ NextHandler = "listUsers"
    /\ Serve(NoInput, GetAllUsersHandler(users, cur.uid))

RunGetUser ==
    /\ Active
    /\ NextHandler = "getUser"
    /\ \E rq \in [username : {""}, email : {""}, password : {<<>>},
                  id : 1..(Len(users) + 1)] :
        Serve(rq, GetUserByIDHandler(users, rq))

RunUpdateUser ==
    /\ Active
    /\ NextHandler = "updateUser"
    /\ \E rq \in [username : {"", "bob"}, email : {"", "b@x.io"},
                  password : {<<>>}, id : 1..(Len(users) + 1)] :
        Serve(rq, UpdateUserHandler(users, cur.uid, rq))

RunDeleteUser ==
    /\ Active
    /\ NextHandler = "deleteUser"
    /\ \E rq \in [username : {""}, email : {""}, password : {<<>>},
                  id : 1..(Len(users) + 1)] :
        Serve(rq, DeleteUserHandler(users, cur.uid, rq))

\* The chain is over (run to its end, or aborted): the response goes out.
Respond ==
    /\ cur.route # "none"
    /\ ~Active
    /\ cur' = NoRequest
    /\ served' = served + 1
    /\ UNCHANGED <<limiters, users, gate, reached>>
    /\ UNCHANGED <<clock, ucall, regs, limiterVars>>

\* A whole pass of cleanup over a map, at clock reading n.
RECURSIVE CleanupAll(_, _, _, _)
CleanupAll(m, keys, n, w) ==
    IF keys = {} THEN m
    ELSE LET k == CHOOSE x \in keys : TRUE
         IN  CleanupAll(CleanupEntry(m, k, n, w), keys \ {k}, n, w)

\* The cleanup goroutine of limiter p runs a pass (one that finds something
\* to prune).  Under the mutex a pass is atomic with respect to Allow, and
\* the other steps of a request share nothing with the limiter: a pass made
\* while a request is served is a pass made before the request was received
\* or after its response, and is explored there.
ServerCleanup(p) ==
    /\ cur.route = "none"
    /\ \E n \in Readings :
        LET rl == limiters[p]
            pruned == CleanupAll(rl.requests, DOMAIN rl.requests, n, rl.window)
        IN  /\ pruned # rl.requests
            /\ clock' = n
            /\ limiters' = [limiters EXCEPT ![p].requests = pruned]
    /\ UNCHANGED <<users, cur, gate, reached, served>>
    /\ UNCHANGED <<ucall, regs, limiterVars>>

ServerNext ==
    \/ \E route \in Routes, ip \in Keys : Receive(route, ip)
    \/ RunRateLimit
    \/ RunAuth
    \/ RunRegister
    \/ RunLogin
    \/ RunListUsers
    \/ RunGetUser
    \/ RunUpdateUser
    \/ RunDeleteUser
    \/ Respond
    \/ \E p \in Policies : ServerCleanup(p)

ServerSpec == ServerInit /\ [][ServerNext]_vars


\* ---- Register requests served at once, each by its own goroutine

\* What goroutine r is left with once its request is answered.
Answered(r, status) == [regs EXCEPT ![r].pc = "done", ![r].status = status]

\* ShouldBindJSON and the checks of username and email (auth.go:44-68)
RegBind(r) ==
    /\ regs[r].pc = "idle"
    /\ regs[r].n < MaxRequests
    /\ \E rq \in [username : Usernames, email : Emails,
                  password : Passwords, id : {0}] :
        LET username == TrimSpace(rq.username)
            email == TrimSpace(ToLower(rq.email))
            valid == UsernameMatches(username) /\ EmailMatches(email)
        IN  regs' = [regs EXCEPT ![r] =
                        [pc |-> IF valid THEN "lookup" ELSE "done",
                         input |-> rq, username |-> username,
                         email |-> email, hash |-> <<>>,
                         status |-> IF valid THEN 0 ELSE 400,
                         n |-> regs[r].n + 1]]
    /\ UNCHANGED <<limiters, users, cur, gate, reached, served, ucall>>
    /\ UNCHANGED <<clock, limiterVars>>

\* DB.Where("email = ? OR username = ?", ...).First(&existingUser)
RegLookup(r) ==
    /\ regs[r].pc = "lookup"
    /\ regs' = IF ExistsEmailOrUsername(users, regs[r].email, regs[r].username)
               THEN Answered(r, 409)
               ELSE [regs EXCEPT ![r].pc = "hash"]
    /\ UNCHANGED <<limiters, users, cur, gate, reached, served, ucall>>
    /\ UNCHANGED <<clock, limiterVars>>

\* utils.HashPassword(req.Password)
RegHash(r) ==
    /\ regs[r].pc = "hash"
    /\ \E build \in BcryptBuilds :
        LET h == HashPassword(regs[r].input.password, build)
        IN  regs' = IF h.err THEN Answered(r, 400)
                    ELSE [regs EXCEPT ![r].pc = "create", ![r].hash = h.hash]
    /\ UNCHANGED <<limiters, users, cur, gate, reached, served, ucall>>
    /\ UNCHANGED <<clock, limiterVars>>

\* database.DB.Create(&user): one INSERT, which the unique indexes refuse
\* or which adds the row.
RegCreate(r) ==
    /\ regs[r].pc = "create"
    /\ IF UniqueViolation(users, 0, regs[r].username, regs[r].email)
       THEN /\ regs' = Answered(r, 500)
            /\ users' = users
       ELSE /\ regs' = Answered(r, 201)
            /\ users' = Append(users,
                  [id |-> Len(users) + 1, username |-> regs[r].username,
                   email |-> regs[r].email, hash |-> regs[r].hash,
                   deleted |-> FALSE])
    /\ UNCHANGED <<limiters, cur, gate, reached, served, ucall>>
    /\ UNCHANGED <<clock, limiterVars>>

\* The response is written and the goroutine is free for its next request.
RegReturn(r) ==
    /\ regs[r].pc = "done"
    /\ regs' = [regs EXCEPT ![r] = [NoReg EXCEPT !.n = regs[r].n]]
    /\ UNCHANGED <<limiters, users, cur, gate, reached, served, ucall>>
    /\ UNCHANGED <<clock, limiterVars>>

RaceInit ==
    /\ LimiterIdle
    /\ clock = 0
    /\ ServerIdle

RaceNext ==
    \E r \in Procs :
        \/ RegBind(r)
        \/ RegLookup(r)
        \/ RegHash(r)
        \/ RegCreate(r)
        \/ RegReturn(r)

RaceSpec == RaceInit /\ [][RaceNext]_vars

\* ---- calls of package utils (passwords and tokens) on their own

\* Longest core of a password input, in characters.
MaxCore == 3

\* The characters password cores are written in: an upper-case letter, a
\* lower-case letter, a digit and a character that is none of them.
PasswordChars == {"A", "a", "1", "!"}

\* n times the character c.
Fill(c, n) == [i \in 1..n |-> c]

\* How many filling characters follow a core: none, or as many as bring a
\* core of three characters around MinPasswordLength and around
\* BcryptMaxBytes.
FillCounts ==
    {0} \cup {MinPasswordLength - k : k \in 3..5}
        \cup {BcryptMaxBytes - k : k \in 2..3}

\* The passwords the functions are called on: every core of at most MaxCore
\* characters, followed by a run of "!" or of e-acute.
PasswordInputs ==
    {core \o Fill(c, n) :
        core \in UNION {[1..len -> PasswordChars] : len \in 0..MaxCore},
        c \in {"!", EAcute},
        n \in FillCounts}

\* The passwords a hash of p is compared with: p, the empty string, p
\* without its last character, p with one character more, p with its first
\* character changed, and p with a NUL character and p again after it.
Candidates(p) ==
    {p, <<>>, SubSeq(p, 1, Len(p) - 1), p \o <<"!">>,
     p \o <<NulChar>> \o p}
        \cup {[p EXCEPT ![1] = c] : c \in IF p = <<>> THEN {} ELSE {"A", "a"}}

\* The arguments GenerateToken is called with.
JwtUserIDs == {1, 2}
JwtUsernames == {"testuser", "al\\xFFce"}
JwtEmails == {"test@example.com"}
JwtSecrets == {"test-secret-key", "test-secret-key\\x00", "wrong-secret-key"}
JwtExpirationHours == {MinInt64.h, -1, 0, 1, jwtConfig.ExpirationHours,
                       MaxInt64.h, MaxInt64.h + 1}

\* Half a second.
HalfSecond == Normal(0, 0, NanosPerSecond \div 2)

\* The instants GenerateToken is called at.
IssueTimes == {Hours(0), HalfSecond}

\* The instants a token issued at t for h hours is validated at: at once,
\* within the second, and half a second before, at and half a second after
\* t + h hours (never before t).
ValidationTimes(t, h) ==
    {at \in {t, Plus(t, HalfSecond),
             Minus(Plus(t, Hours(h)), HalfSecond),
             Plus(t, Hours(h)),
             Plus(Plus(t, Hours(h)), HalfSecond)} : ~Earlier(at, t)}

\* utils.ValidatePassword(pw)
CallValidatePassword ==
    /\ ucall = NoCall
    /\ \E pw \in PasswordInputs :
        ucall' = [fn |-> "ValidatePassword", password |-> pw,
                 ok |-> ValidatePassword(pw)]
    /\ UNCHANGED <<limiters, users, cur, gate, reached, served, regs>>
    /\ UNCHANGED <<clock, limiterVars>>

\* utils.HashPassword(pw), linked against either bcrypt
CallHashPassword ==
    /\ ucall = NoCall
    /\ \E pw \in PasswordInputs, build \in BcryptBuilds :
        LET h == HashPassword(pw, build)
        IN  ucall' = [fn |-> "HashPassword", password |-> pw,
                     hash |-> h.hash, err |-> h.err]
    /\ UNCHANGED <<limiters, users, cur, gate, reached, served, regs>>
    /\ UNCHANGED <<clock, limiterVars>>

\* utils.CheckPassword(q, h) on the hash h the last HashPassword(p) returned
CallCheckPassword ==
    /\ ucall.fn = "HashPassword"
    /\ \E q \in Candidates(ucall.password) :
        ucall' = [fn |-> "CheckPassword", password |-> q,
                 hash |-> ucall.hash, hashed |-> ucall.password,
                 ok |-> CheckPassword(q, ucall.hash)]
    /\ UNCHANGED <<limiters, users, cur, gate, reached, served, regs>>
    /\ UNCHANGED <<clock, limiterVars>>

\* utils.GenerateToken(userID, username, email, config) at instant at
CallGenerateToken ==
    /\ ucall = NoCall
    /\ \E userID \in JwtUserIDs, username \in JwtUsernames,
          email \in JwtEmails, at \in IssueTimes,
          config \in [SecretKey : {"test-secret-key"},
                      ExpirationHours : JwtExpirationHours] :
        ucall' = [fn |-> "GenerateToken", userID |-> userID,
                 username |-> username, email |-> email, config |-> config,
                 at |-> at,
                 token |-> GenerateToken(userID, username, email, config, at)]
    /\ UNCHANGED <<limiters, users, cur, gate, reached, served, regs>>
    /\ UNCHANGED <<clock, limiterVars>>

\* utils.ValidateToken(tokenString, secretKey) at instant at, on the token
\* the last GenerateToken returned, on a token with another alg in its
\* header, on "invalid.token.format" or on ""
CallValidateToken ==
    /\ ucall.fn = "GenerateToken"
    /\ \E tokenString \in {ucall.token, [ucall.token EXCEPT !.header = "none"],
                           InvalidTokenFormat, NoToken},
          secretKey \in JwtSecrets,
          at \in ValidationTimes(ucall.at, ucall.config.ExpirationHours) :
        ucall' = [fn |-> "ValidateToken", issued |-> ucall,
                 tokenString |-> tokenString, secretKey |-> secretKey,
                 at |-> at,
                 result |-> ValidateToken(tokenString, secretKey, at)]
    /\ UNCHANGED <<limiters, users, cur, gate, reached, served, regs>>
    /\ UNCHANGED <<clock, limiterVars>>

UtilsInit ==
    /\ LimiterIdle
    /\ clock = 0
    /\ ServerIdle

UtilsNext ==
    \/ CallValidatePassword
    \/ CallHashPassword
    \/ CallCheckPassword
    \/ CallGenerateToken
    \/ CallValidateToken

UtilsSpec == UtilsInit /\ [][UtilsNext]_vars

\* ------------------------------------------------- reference computations

\* The calls of the history made with key k, in mutex order.
CallsOf(k) == SelectSeq(history, LAMBDA c : c.key = k)

\* The results Allow gives when the calls are made one after the other on a
\* fresh limiter on which cleanup never runs.
RECURSIVE SequentialResults(_, _, _, _)
SequentialResults(calls, m, l, w) ==
    IF calls = <<>> THEN <<>>
    ELSE LET c == Head(calls)
             ex == c.key \in DOMAIN m
             r == AllowBody(m, c.key, c.now, IF ex THEN m[c.key] ELSE <<>>,
                            ex, l, w)
         IN  <<r.ok>> \o SequentialResults(Tail(calls), r.requests, l, w)

Results(calls) == [i \in 1..Len(calls) |-> calls[i].ok]

Admitted(calls) == {i \in 1..Len(calls) : calls[i].ok}
Denied(calls) == {i \in 1..Len(calls) : ~calls[i].ok}

\* All the calls read the clock within a span shorter than the window.
WithinSpan(calls) ==
    \A i, j \in 1..Len(calls) : calls[j].now - calls[i].now < window

\* The last call decided, when a step decides one.
Decides == Len(history') = Len(history) + 1
Last == history'[Len(history')]

\* Goroutines inside the code between Lock and Unlock.
InCritical ==
    {p \in Procs : pc[p] \in {"read", "decide", "unlock"}}
        \cup (IF cpc \in {"now", "range"} THEN {"cleanup"} ELSE {})

\* ------------------------------------------------------------------ claims

\* C1: no over-admission. For every key k and every instant T, the number of
\* Allow(k) calls that returned true at times t with T - window < t <= T is
\* at most limit, whatever Allow calls and cleanup passes were interleaved.
C1_NoOverAdmission ==
    \A k \in Keys, T \in 0..MaxTime :
        Cardinality({i \in 1..Len(history) :
                        /\ history[i].key = k
                        /\ history[i].ok
                        /\ T - window < history[i].now
                        /\ history[i].now <= T}) <= limit

\* A key has used its whole quota inside one window, was then denied, and a
\* cleanup pass is running.
C1_Witness ==
    \E k \in Keys :
        /\ Cardinality(Admitted(CallsOf(k))) = limit
        /\ Denied(CallsOf(k)) # {}
        /\ WithinSpan(CallsOf(k))
        /\ cpc = "range"

\* C2: on a fresh limiter, N > limit concurrent Allow(k) calls for one key,
\* all within a span shorter than the window, give exactly limit true results
\* and N - limit false results, under every interleaving.
C2_ConcurrentExact ==
    \A k \in Keys :
        LET calls == CallsOf(k)
        IN  (Len(calls) > limit /\ WithinSpan(calls)) =>
                /\ Cardinality(Admitted(calls)) = limit
                /\ Cardinality(Denied(calls)) = Len(calls) - limit

\* More than limit calls for one key were decided within the span, at least
\* two of them while another call for the same key was in flight.
C2_Witness ==
    \E k \in Keys :
        LET calls == CallsOf(k)
        IN  /\ Len(calls) > limit
            /\ WithinSpan(calls)
            /\ Cardinality({i \in 1..Len(calls) : calls[i].raced}) >= 2

\* C3: on a fresh limiter, the first limit calls for a key made within a span
\* shorter than the window all return true, and the (limit+1)-th call made
\* within that span returns false.
C3_Successive ==
    \A k \in Keys :
        LET calls == CallsOf(k)
        IN  \A i \in 1..Len(calls) :
                (i <= limit + 1 /\ calls[i].now - calls[1].now < window) =>
                    (calls[i].ok <=> i <= limit)

\* limit + 1 calls for one key, one after the other with no other call in
\* flight, within the span: the last one is the denied one.
C3_Witness ==
    \E k \in Keys :
        LET calls == CallsOf(k)
        IN  /\ Len(calls) = limit + 1
            /\ WithinSpan(calls)
            /\ \A i \in 1..Len(calls) : ~calls[i].raced
            /\ ~calls[limit + 1].ok

\* The oldest timestamp of a sequence.
Oldest(ts) == CHOOSE t \in {ts[i] : i \in 1..Len(ts)} :
                  \A i \in 1..Len(ts) : t <= ts[i]

\* C4: window rollover. Whenever the oldest timestamp stored for the key is
\* at least window old at the call's clock reading (now - t >= window, equal
\* included), Allow returns true.
C4_Rollover ==
    \A p \in Procs :
        (/\ pc[p] = "unlock"
         /\ exists[p]
         /\ times[p] # <<>>
         /\ now[p] - Oldest(times[p]) >= window) => ret[p]

\* Such a call, with the oldest timestamp exactly window old, right after a
\* denied call for the same key.
C4_Witness ==
    \E p \in Procs :
        /\ pc[p] = "unlock"
        /\ exists[p]
        /\ times[p] # <<>>
        /\ now[p] - Oldest(times[p]) = window
        /\ ret[p]
        /\ Len(history) >= 2
        /\ history[Len(history) - 1].key = key[p]
        /\ ~history[Len(history) - 1].ok

\* C5: a denied attempt is not recorded. The step in which Allow decides
\* false leaves the whole map as it was, and the admitted calls get the same
\* results in the run in which the denied calls were never made.
C5_DeniedNotRecorded ==
    /\ [][(Decides /\ ~Last.ok) => requests' = requests]_vars
    /\ [](LET kept == SelectSeq(history, LAMBDA c : c.ok)
          IN  SequentialResults(kept, EmptyMap, limit, window) = Results(kept))

\* A call was denied and a later call for the same key was admitted.
C5_Witness ==
    \E i, j \in 1..Len(history) :
        /\ i < j
        /\ history[i].key = history[j].key
        /\ ~history[i].ok
        /\ history[j].ok

\* C6: cleanup is unobservable through Allow. Every Allow call returns what
\* it returns when the same timed calls are made and cleanup never runs.
C6_CleanupUnobservable ==
    Results(history) = SequentialResults(history, EmptyMap, limit, window)

\* Allow found its key absent although the key had been admitted before:
\* cleanup had deleted it.
C6_Witness ==
    \E p \in Procs :
        /\ pc[p] = "unlock"
        /\ ~exists[p]
        /\ \E i \in 1..(Len(history) - 1) : history[i].key = key[p]

\* C7: keys are independent. A step in which Allow(a) decides leaves every
\* other key's entry of the map as it was, and the calls of each key get the
\* results they get when no other key ever calls.
C7_KeysIndependent ==
    /\ [][Decides =>
            \A b \in Keys \ {Last.key} :
                /\ (b \in DOMAIN requests') <=> (b \in DOMAIN requests)
                /\ b \in DOMAIN requests => requests'[b] = requests[b]]_vars
    /\ [](\A b \in Keys :
            SequentialResults(CallsOf(b), EmptyMap, limit, window)
                = Results(CallsOf(b)))

\* Key A has been denied, and key B is admitted afterwards.
C7_Witness ==
    \E i, j \in 1..Len(history) :
        /\ i < j
        /\ history[i].key = "A" /\ ~history[i].ok
        /\ history[j].key = "B" /\ history[j].ok
        /\ "A" \in DOMAIN requests

\* C8: right after Allow has decided (true or false) and right after cleanup
\* has visited a key, every timestamp t stored for that key satisfies
\* 0 <= now - t < window for the operation's own clock reading.
C8_FreshAfterTouch ==
    /\ \A p \in Procs :
        (pc[p] = "unlock" /\ key[p] \in DOMAIN requests) =>
            \A i \in 1..Len(requests[key[p]]) :
                /\ 0 <= now[p] - requests[key[p]][i]
                /\ now[p] - requests[key[p]][i] < window
    /\ cpc = "range" =>
        \A k \in (DOMAIN before \ todo) \cap DOMAIN requests :
            \A i \in 1..Len(requests[k]) :
                /\ 0 <= cnow - requests[k][i]
                /\ cnow - requests[k][i] < window

\* Allow has just denied a key of which an older admitted timestamp is no
\* longer stored (it went stale and was pruned).
C8_Witness ==
    \E p \in Procs :
        /\ pc[p] = "unlock"
        /\ ~ret[p]
        /\ key[p] \in DOMAIN requests
        /\ Cardinality(Admitted(CallsOf(key[p]))) > Len(requests[key[p]])

\* C9: mutual exclusion. At no time are two goroutines (Allow calls, or an
\* Allow call and the cleanup pass) between Lock and Unlock.
C9_MutualExclusion ==
    /\ Cardinality(InCritical) <= 1
    /\ (InCritical # {}) <=> mu

\* The cleanup pass is inside its range loop while every request goroutine
\* waits in Lock.
C9_Witness ==
    /\ cpc = "range"
    /\ todo # {}
    /\ \A p \in Procs : pc[p] = "lock"

\* C10: a cleanup pass at time now leaves, for every key it has visited,
\* exactly the subsequence of its previous timestamps t with now - t < window,
\* in their previous order, removes the key when that subsequence is empty,
\* and adds no key.
C10_CleanupPass ==
    cpc = "range" =>
        /\ DOMAIN requests \subseteq DOMAIN before
        /\ \A k \in DOMAIN before \ todo :
            LET kept == SelectSeq(before[k], LAMBDA t : cnow - t < window)
            IN  /\ (k \in DOMAIN requests) <=> (kept # <<>>)
                /\ k \in DOMAIN requests => requests[k] = kept
        /\ \A k \in todo : k \in DOMAIN requests /\ requests[k] = before[k]

\* A finished pass that deleted one key and pruned another to a shorter,
\* non-empty sequence.
C10_Witness ==
    /\ cpc = "range"
    /\ todo = {}
    /\ \E k \in DOMAIN before : k \notin DOMAIN requests
    /\ \E k \in DOMAIN requests : Len(requests[k]) < Len(before[k])

\* A key the limiter holds whose timestamps have all left the window, while
\* no Allow call for it is under way.
Idle(k) ==
    /\ k \in DOMAIN requests
    /\ \A i \in 1..Len(requests[k]) : ~Recent(requests[k][i], clock, window)
    /\ \A p \in Procs : pc[p] # "idle" => key[p] # k

\* An Allow call for k is under way.
Called(k) == \E p \in Procs : pc[p] # "idle" /\ key[p] = k

\* C11: memory is reclaimed for idle clients. Under fair scheduling a key
\* whose timestamps are all at least window old, and for which no Allow call
\* is made any more, is eventually absent from the requests map; and a key
\* absent from the map stays absent until an Allow call for that key decides.
C11_Reclaimed ==
    /\ \A k \in Keys : Idle(k) ~> (k \notin DOMAIN requests \/ Called(k))
    /\ [][\A k \in Keys :
            (k \notin DOMAIN requests /\ k \in DOMAIN requests') =>
                \E p \in Procs : /\ pc[p] = "decide"
                                 /\ key[p] = k
                                 /\ pc'[p] = "unlock"]_vars

\* A client that was admitted, then left alone for a window: its key is gone
\* after a cleanup pass has ended, with no call for it under way.
C11_Witness ==
    \E k \in Keys :
        /\ k \notin DOMAIN requests
        /\ \E i \in 1..Len(history) :
              /\ history[i].key = k
              /\ history[i].ok
              /\ clock - history[i].now >= window
        /\ ~Called(k)
        /\ cpc = "tick"
        /\ mu = FALSE

\* ------------------------------------------------------ the server's claims

\* The position of the first occurrence of event e in trace tr (0: none).
FirstAt(tr, e) ==
    IF \E i \in 1..Len(tr) : tr[i] = e
    THEN CHOOSE i \in 1..Len(tr) :
            tr[i] = e /\ \A j \in 1..(i - 1) : tr[j] # e
    ELSE 0

Happened(tr, e) == FirstAt(tr, e) # 0

\* C12: the gate of RateLimitMiddleware. A request whose Allow returned false
\* carries status 429 and the error body "Rate limit exceeded. Please try
\* again later.", its chain is aborted, and neither its route handler nor a
\* datastore operation has run for it; a request whose Allow returned true
\* carries no 429, has the handler after the limiter as its next handler,
\* and has had that handler invoked once its chain is over.
C12_Gate ==
    /\ cur.allowed = "no" =>
          /\ cur.status = 429
          /\ cur.error = RateLimitBody
          /\ cur.aborted
          /\ ~Active
          /\ ~Happened(cur.trace, "handler")
          /\ ~Happened(cur.trace, "db")
    /\ cur.allowed = "yes" =>
          /\ cur.status # 429
          /\ ~cur.aborted
          /\ cur.index > 1
          /\ Chain(cur.route)[cur.index - 1] = "RateLimit"
                 => (Active /\ NextHandler \notin {"RateLimit", "Auth"})
          /\ ~Active => Happened(cur.trace, "handler")

\* A login the limiter denied, answered 429 and waiting to be sent.
C12_Witness ==
    /\ cur.route = "login"
    /\ cur.allowed = "no"
    /\ cur.status = 429
    /\ cur.trace = <<"allow">>

\* Event a of the request being served happened, and before event b if b
\* happened at all.
Before(a, b) ==
    Happened(cur.trace, b) =>
        /\ Happened(cur.trace, a)
        /\ FirstAt(cur.trace, a) < FirstAt(cur.trace, b)

\* C13 as stated: on every rate-limited route the limiter's Allow check comes
\* before any authentication logic (JWT validation, password check) and
\* before any persistence access.
C13_AllowFirst ==
    cur.route \in Routes =>
        \A e \in {"jwt", "password", "db"} : Before("allow", e)

\* C13, amended: on the register and login routes the Allow check is the
\* first thing done, before the password check and any persistence access;
\* on the /api/users routes JWT validation comes first and the Allow check
\* comes before the route handler and any persistence access; a request the
\* limiter denied reaches no password check, route handler or persistence
\* access.
C13_AllowBeforeHandler ==
    /\ cur.route \in Routes =>
          \A e \in {"handler", "password", "hash", "db"} : Before("allow", e)
    /\ cur.route \in {"register", "login"} =>
          /\ ~Happened(cur.trace, "jwt")
          /\ cur.trace # <<>> => cur.trace[1] = "allow"
    /\ cur.route \in UserRoutes => Before("jwt", "allow")
    /\ cur.allowed = "no" =>
          \A e \in {"handler", "password", "hash", "db"} :
              ~Happened(cur.trace, e)

\* A request for a /api/users route whose token was validated and which the
\* general limiter then denied.
C13_Witness ==
    /\ cur.route \in UserRoutes
    /\ cur.uid # 0
    /\ cur.allowed = "no"
    /\ cur.trace = <<"jwt", "allow">>

\* The calls of log admitted for key k at a clock reading less than w before
\* reading n.
AdmittedWithin(log, k, n, w) ==
    {i \in 1..Len(log) : log[i].key = k /\ log[i].ok /\ n - log[i].now < w}

\* C14: the three limiter instances share no state. A step changes at most
\* one instance, and never an instance's limit or window; an Allow call made
\* for a route of one policy leaves the other two instances as they were, and
\* its result is decided by the calls of that policy alone: it is admitted
\* exactly when fewer than the policy's limit of the client's calls under
\* that same policy were admitted within the last window, whatever the
\* client has used up under the other policies.
C14_Independent ==
    [][/\ \A p \in Policies :
            limiters'[p] # limiters[p] =>
                /\ limiters'[p].limit = limiters[p].limit
                /\ limiters'[p].window = limiters[p].window
                /\ \A q \in Policies \ {p} : limiters'[q] = limiters[q]
       /\ \A c \in Policies :
            Len(gate'[c]) > Len(gate[c]) =>
                LET call == gate'[c][Len(gate'[c])]
                    used == AdmittedWithin(gate[c], call.key, call.now,
                                           TicksPerMinute)
                IN  /\ call.ok <=> Cardinality(used) < PolicyLimit(c)
                    /\ \A q \in Policies \ {c} :
                          /\ limiters'[q] = limiters[q]
                          /\ gate'[q] = gate[q]]_vars

\* A client whose registration quota is used up is admitted to login.
C14_Witness ==
    /\ cur.route = "login"
    /\ cur.allowed = "yes"
    /\ Cardinality(AdmittedWithin(gate["register"], cur.ip, cur.now,
                                  TicksPerMinute)) = RegisterLimit

\* The requests of client k that reached a handler of policy c after the
\* limiter read a clock value in the minute that ends at reading T.
ReachedWithin(c, k, T) ==
    {i \in 1..Len(reached[c]) :
        /\ reached[c][i].key = k
        /\ T - reached[c][i].now < TicksPerMinute
        /\ reached[c][i].now <= T}

\* In no trailing minute did more than n requests of one client reach a
\* handler of policy c (a log of at most n requests need not be counted).
AtMost(c, n) ==
    \/ Len(reached[c]) <= n
    \/ \A k \in Keys, T \in 0..MaxTime :
          Cardinality(ReachedWithin(c, k, T)) <= n

\* C15: with the server's policies, for every client and every trailing
\* minute at most 3 requests reach the Register handler, at most 5 the Login
\* handler and at most 100 the /api/users handlers (a request counted at the
\* clock reading of its Allow call); a request that comes when that many
\* have reached the handler within the last minute is answered 429, and no
\* step of a denied request changes the users table.
C15_PolicyQuota ==
    /\ [](/\ AtMost("register", 3)
          /\ AtMost("auth", 5)
          /\ AtMost("general", 100))
    /\ [](\A c \in Policies :
            (/\ cur.route \in Routes
             /\ PolicyClass(cur.route) = c
             /\ cur.allowed # "unset"
             /\ ~Happened(cur.trace, "handler")
             /\ Cardinality(ReachedWithin(c, cur.ip, cur.now)) >= PolicyLimit(c))
            => (cur.allowed = "no" /\ cur.status = 429))
    /\ [][cur.allowed = "no" => users' = users]_vars

\* The 4th registration of a client within the minute: denied, answered
\* 429, the three before it having reached the handler.
C15_Witness ==
    /\ cur.route = "register"
    /\ cur.allowed = "no"
    /\ cur.status = 429
    /\ Cardinality(ReachedWithin("register", cur.ip, cur.now)) = 3
    /\ served > 0

\* C16: every Allow call and every cleanup pass terminates and releases the
\* mutex. Under fair scheduling a call under way leads to its return and a
\* pass under way leads to its end; the return of a call and the end of a
\* pass leave the mutex free, whatever the call decided; the mutex is held
\* only while a goroutine is between Lock and Unlock, so a goroutine waiting
\* in Lock always has a holder that can go on.
C16_Terminates ==
    /\ \A p \in Procs : (pc[p] # "idle") ~> (pc[p] = "idle")
    /\ (cpc # "tick") ~> (cpc = "tick")
    /\ [](mu <=> InCritical # {})
    /\ [][/\ \A p \in Procs :
               (pc[p] # "idle" /\ pc'[p] = "idle") => ~mu'
          /\ (cpc # "tick" /\ cpc' = "tick") => ~mu']_vars

\* Three calls for one key have returned, one on each path (unseen key,
\* admitted on a stored key, denied), no pass is under way and nobody holds
\* the mutex.
C16_Witness ==
    /\ Len(history) = 3
    /\ history[1].ok /\ history[2].ok /\ ~history[3].ok
    /\ history[1].key = history[2].key
    /\ history[2].key = history[3].key
    /\ \A p \in Procs : pc[p] = "idle"
    /\ cpc = "tick"
    /\ ~mu

\* C17: a limiter's limit and window keep the values given to NewRateLimiter
\* in every reachable state: no Allow call, cleanup pass or middleware
\* invocation changes them.
C17_PolicyFixed ==
    /\ [](\A p \in Policies :
            /\ limiters[p].limit = PolicyLimit(p)
            /\ limiters[p].window = TicksPerMinute)
    /\ [][\A p \in Policies :
            /\ limiters'[p].limit = limiters[p].limit
            /\ limiters'[p].window = limiters[p].window]_vars

\* Requests went through the registration limiter, a cleanup pass emptied
\* its map again, and its limit and window are those main gave it.
C17_Witness ==
    /\ served = MaxRequests
    /\ Len(gate["register"]) >= MaxRequests
    /\ limiters["register"].requests = EmptyMap
    /\ limiters["register"].limit = RegisterLimit
    /\ limiters["register"].window = TicksPerMinute

\* The request being served is a PUT /api/users/:id whose handler has run,
\* made by a live user on their own id, with a valid new username and/or
\* email that no other row holds.
OwnValidUpdate ==
    /\ cur.route = "updateUser"
    /\ Happened(cur.trace, "handler")
    /\ cur.uid \in Live(users)
    /\ cur.input.id = cur.uid
    /\ cur.input.username # "" \/ cur.input.email # ""
    /\ cur.input.username # "" => UsernameMatches(cur.input.username)
    /\ cur.input.email # "" => EmailMatches(cur.input.email)
    /\ \A i \in (1..Len(users)) \ {cur.uid} :
          /\ users[i].username # cur.input.username
          /\ users[i].email # cur.input.email

\* C18: UpdateUser. A PUT /api/users/:id request authenticated as user u,
\* with :id equal to u's id and a body carrying a valid new username and/or
\* email, responds 200, and afterwards the stored username and email of u
\* equal the requested values.
C18_UpdateOwnProfile ==
    OwnValidUpdate =>
        /\ cur.status = 200
        /\ cur.input.username # "" =>
              users[cur.uid].username = cur.input.username
        /\ cur.input.email # "" => users[cur.uid].email = cur.input.email

\* The stored username, email or deletion status of row i changes in the
\* step.
RecordChanges(i) ==
    \/ users'[i].username # users[i].username
    \/ users'[i].email # users[i].email
    \/ users'[i].deleted # users[i].deleted

\* C19: own data only. No step removes a row of the users table, and a step
\* that changes the stored username, email or deletion status of a user's
\* row is the handler step of an UpdateUser or DeleteUser request
\* authenticated as that same user: no request authenticated as user a
\* modifies or deletes the row of another user b.
C19_OwnDataOnly ==
    [][/\ Len(users') >= Len(users)
       /\ \A i \in 1..Len(users) :
            RecordChanges(i) =>
                /\ cur.route \in {"updateUser", "deleteUser"}
                /\ Active
                /\ NextHandler = cur.route
                /\ cur.uid = i]_vars

\* A DELETE for another user's id, made with a valid token: answered 403,
\* the other user's row still live.
C19_Witness ==
    /\ cur.route = "deleteUser"
    /\ Happened(cur.trace, "handler")
    /\ cur.uid # 0
    /\ cur.input.id # cur.uid
    /\ cur.input.id \in Live(users)
    /\ cur.status = 403

\* The live row a login with email em should find (0: the email is not
\* registered, or its user was deleted).
Registered(em) ==
    IF \E i \in Live(users) : users[i].email = TrimSpace(ToLower(em))
    THEN CHOOSE i \in Live(users) : users[i].email = TrimSpace(ToLower(em))
    ELSE 0

C21_ListOthers ==
    (/\ cur.route = "listUsers"
     /\ Happened(cur.trace, "handler")
     /\ cur.uid # 0) =>
        /\ cur.status = 200
        /\ {cur.list[i].id : i \in 1..Len(cur.list)} = Live(users) \ {cur.uid}
        /\ \A i, j \in 1..Len(cur.list) :
              cur.list[i].id = cur.list[j].id => i = j
        /\ \A i \in 1..Len(cur.list) :
              /\ cur.list[i].username = users[cur.list[i].id].username
              /\ cur.list[i].email = users[cur.list[i].id].email
        /\ cur.count = Len(cur.list)

\* A list asked by a live user while another user is live and listed.
C21_Witness ==
    /\ cur.route = "listUsers"
    /\ cur.status = 200
    /\ cur.uid \in Live(users)
    /\ cur.count = 1
    /\ cur.list[1].id # cur.uid

\* ---- reference notions for the calls of package utils

\* The password has an upper-case letter, a lower-case letter and a digit.
HasThreeClasses(pw) ==
    /\ \E i \in 1..Len(pw) : pw[i] \in UpperCase
    /\ \E i \in 1..Len(pw) : pw[i] \in LowerCase
    /\ \E i \in 1..Len(pw) : pw[i] \in Digits

\* C22: ValidatePassword returns nil exactly when the password has at least
\* 8 characters and contains at least one upper-case letter, at least one
\* lower-case letter and at least one digit, and ErrWeakPassword in every
\* other case.
C22_EightCharacters ==
    ucall.fn = "ValidatePassword" =>
        (ucall.ok <=>
            /\ Len(ucall.password) >= MinPasswordLength
            /\ HasThreeClasses(ucall.password))

\* C23: HashPassword returns an error and the empty string for every
\* password ValidatePassword rejects; for every accepted password p it
\* returns a non-empty hash h such that CheckPassword(p, h) is true and
\* CheckPassword(q, h) is false for every q different from p, the empty
\* string included.
C23_HashThenCheck ==
    /\ ucall.fn = "HashPassword" =>
          IF ValidatePassword(ucall.password)
          THEN ~ucall.err /\ ucall.hash # <<>>
          ELSE ucall.err /\ ucall.hash = <<>>
    /\ (ucall.fn = "CheckPassword" /\ ValidatePassword(ucall.hashed)) =>
          /\ ucall.hash # <<>>
          /\ ucall.ok <=> ucall.password = ucall.hashed

\* C24: JWT round trip. For every user id, username, email and config with
\* positive ExpirationHours, ValidateToken on the token GenerateToken
\* returned, with the config's secret and right after the token was
\* generated, returns claims with the same id, username and email;
\* ValidateToken returns an error and nil claims for a token validated with
\* a different secret, for a malformed token string and for the empty string.
C24_RoundTrip ==
    ucall.fn = "ValidateToken" =>
        LET issued == ucall.issued IN
        /\ (/\ ucall.tokenString = issued.token
            /\ issued.config.ExpirationHours > 0
            /\ ucall.secretKey = issued.config.SecretKey
            /\ ~Earlier(Plus(issued.at, HalfSecond), ucall.at)) =>
                /\ ucall.result.err = ""
                /\ ~ucall.result.nil
                /\ Subject(ucall.result.claims) =
                      [uid |-> issued.userID, username |-> issued.username,
                       email |-> issued.email]
        /\ (\/ ucall.secretKey # issued.config.SecretKey
            \/ ucall.tokenString \in {InvalidTokenFormat, NoToken}) =>
                /\ ucall.result.err # ""
                /\ ucall.result.nil

\* C25: token expiry. A token generated at time t with ExpirationHours = h
\* is rejected by ValidateToken at every time later than t + h hours, as
\* ErrExpiredToken when the secret is the right one, so a token generated
\* with a negative ExpirationHours is never accepted; a token with h = 24,
\* as Register and Login issue them, is accepted at every time between
\* issue and issue + 24 hours.
C25_Expiry ==
    (ucall.fn = "ValidateToken" /\ ucall.tokenString = ucall.issued.token) =>
        LET t == ucall.issued.at
            h == ucall.issued.config.ExpirationHours
            rightSecret == ucall.secretKey = ucall.issued.config.SecretKey
        IN  /\ Earlier(Plus(t, Hours(h)), ucall.at) =>
                  /\ ucall.result.nil
                  /\ rightSecret => ucall.result.err = "ErrExpiredToken"
            /\ h < 0 => ucall.result.nil
            /\ (/\ h = jwtConfig.ExpirationHours
                /\ rightSecret
                /\ ~Earlier(Plus(t, Hours(h)), ucall.at)) =>
                  ucall.result.err = ""

\* The step in which the handler of the route runs.
HandlerRuns(route) ==
    /\ cur.route = route
    /\ ~Happened(cur.trace, "handler")
    /\ Happened(cur'.trace, "handler")

StillCounted(log, k, n) ==
    {i \in 1..Len(log) :
        log[i].key = k /\ log[i].ok /\ n - log[i].now < window}

\* C27: exact admission. Under any interleaving of Allow calls and cleanup
\* passes, Allow(k) at clock reading now returns true if and only if fewer
\* than limit earlier Allow(k) calls returned true at times t with
\* now - t < window, counted in the never-pruned log of all calls; when it
\* returns true, k's sequence becomes the timestamps already in it that are
\* still inside the window followed by exactly one new timestamp, now.
C27_ExactAdmission ==
    [][Len(history') > Len(history) =>
        LET e == history'[Len(history')]
            counted == StillCounted(history, e.key, e.now)
        IN  /\ e.ok <=> Cardinality(counted) < limit
            /\ e.ok =>
                /\ e.key \in DOMAIN requests'
                /\ Len(requests'[e.key]) = Cardinality(counted) + 1
                /\ requests'[e.key][Len(requests'[e.key])] = e.now
                /\ \A i \in 1..Cardinality(counted) :
                      \E j \in counted : requests'[e.key][i] = history[j].now
            /\ ~e.ok => requests' = requests]_vars

\* A key was admitted, then denied inside the window, and admitted again
\* once the first timestamp had left the window.
C27_Witness ==
    \E k \in Keys :
        LET calls == CallsOf(k)
        IN  /\ Len(calls) = 3
            /\ calls[1].ok /\ ~calls[2].ok /\ calls[3].ok
            /\ calls[3].now - calls[1].now >= window
            /\ Len(requests[k]) = 1

\* C28: UpdateUser or DeleteUser authenticated as user a and aimed at the id
\* of an existing different user b responds 403 Forbidden and leaves every
\* stored user record unchanged.
C28_OthersForbidden ==
    [][(/\ HandlerRuns("updateUser") \/ HandlerRuns("deleteUser")
        /\ cur.uid # 0
        /\ cur'.input.id \in Live(users)
        /\ cur'.input.id # cur.uid) =>
            /\ cur'.status = 403
            /\ users' = users]_vars

\* C29: in every reachable state of a limiter (limit >= 1), the timestamp
\* sequence stored for every key has length at most limit.
C29_AtMostLimit ==
    \A k \in DOMAIN requests : Len(requests[k]) <= limit

\* With a limit above one, a key's stored sequence is full and a further
\* call for that key has just been denied.
C29_Witness ==
    /\ limit > 1
    /\ \E k \in DOMAIN requests, p \in Procs :
          /\ Len(requests[k]) = limit
          /\ pc[p] = "unlock" /\ key[p] = k /\ ~ret[p]

\* C30: in every reachable state, each key's stored timestamp sequence is in
\* non-decreasing time order, also when Allow calls for the same key race.
C30_TimeOrdered ==
    \A k \in DOMAIN requests :
        \A i, j \in 1..Len(requests[k]) :
            i < j => requests[k][i] <= requests[k][j]

\* Two calls for one key raced, were admitted at different clock readings,
\* and both timestamps are stored, the earlier one first.
C30_Witness ==
    \E k \in DOMAIN requests :
        /\ Len(requests[k]) = 2
        /\ requests[k][1] < requests[k][2]
        /\ \E i, j \in 1..Len(history) :
              /\ i < j
              /\ history[i].key = k /\ history[j].key = k
              /\ history[i].ok /\ history[j].ok
              /\ history[i].raced /\ history[j].raced
              /\ history[i].now = requests[k][1]
              /\ history[j].now = requests[k][2]

\* C31: in every reachable state no key of the requests map is mapped to an
\* empty timestamp sequence: every sequence Allow stores ends with the
\* timestamp of the call that stored it, and cleanup deletes a key instead
\* of storing an empty sequence.
C31_NoEmptySequence ==
    /\ [](\A k \in DOMAIN requests : requests[k] # <<>>)
    /\ [][Len(history') > Len(history) =>
            LET e == history'[Len(history')]
            IN  \A k \in DOMAIN requests' :
                    (k \notin DOMAIN requests \/ requests'[k] # requests[k]) =>
                        /\ k = e.key
                        /\ requests'[k][Len(requests'[k])] = e.now]_vars
    /\ [][\A k \in DOMAIN requests :
            (k \in DOMAIN requests' /\ requests'[k] # requests[k]) =>
                requests'[k] # <<>>]_vars

\* A cleanup pass has visited a key whose timestamps had all left the
\* window and the key is gone from the map, while another key is kept.
C31_Witness ==
    /\ cpc = "range"
    /\ \E k \in DOMAIN before :
          /\ k \notin todo
          /\ k \notin DOMAIN requests
          /\ \A i \in 1..Len(before[k]) : cnow - before[k][i] >= window
    /\ DOMAIN requests # {}

\* A current (non-deleted) user holds the email or the username.
Held(us, email, username) ==
    \E i \in 1..Len(us) :
        /\ ~us[i].deleted
        /\ us[i].email = email \/ us[i].username = username

C33_UniqueUnderRace ==
    /\ \A i, j \in 1..Len(users) :
          i # j => /\ users[i].email # users[j].email
                   /\ users[i].username # users[j].username
    /\ \A r, q \in Procs :
          (/\ r # q
           /\ regs[r].status = 201
           /\ regs[q].status = 201) =>
              /\ regs[r].email # regs[q].email
              /\ regs[r].username # regs[q].username

\* Both existence checks ran before either insert (the loser was not answered
\* 409 but 500, which only the index produces), and one user was created.
C33_Witness ==
    \E r, q \in Procs :
        /\ r # q
        /\ regs[r].pc = "done" /\ regs[r].status = 201
        /\ regs[q].pc = "done" /\ regs[q].status = 500
        /\ regs[r].username = regs[q].username
        /\ regs[r].email # regs[q].email
        /\ Len(SelectSeq(users, LAMBDA u : u.username = regs[q].username)) = 1


\* C34 as stated: a Register request with a valid username, a valid email
\* and a password accepted by ValidatePassword, whose email and username
\* belong to no current (non-deleted) user, creates the user and responds 201
\* with a token, including when a previously deleted account had used the
\* same email or username.
C34_RegisterCreates ==
    [][(/\ HandlerRuns("register")
        /\ UsernameMatches(TrimSpace(cur'.input.username))
        /\ EmailMatches(TrimSpace(ToLower(cur'.input.email)))
        /\ ValidatePassword(cur'.input.password)
        /\ ~Held(users, TrimSpace(ToLower(cur'.input.email)),
                 TrimSpace(cur'.input.username))) =>
            /\ cur'.status = 201
            /\ cur'.token # NoToken
            /\ Len(users') = Len(users) + 1
            /\ LET new == users'[Len(users')]
               IN  /\ new.username = TrimSpace(cur'.input.username)
                   /\ new.email = TrimSpace(ToLower(cur'.input.email))
                   /\ ~new.deleted
            /\ \A i \in 1..Len(users) : users'[i] = users[i]]_vars

====
